---- MODULE Spec2Model ----
(***************************************************************************)
(* DarkModeController (src/browser/dark-mode.js): the tri-state dark-mode  *)
(* preference (auto / enabled / disabled), its persistence, the two        *)
(* marker classes on the container, and the tap / long-press gesture       *)
(* classifier of handleEvent.                                              *)
(*                                                                         *)
(* JavaScript values are written as strings: "undefined" for undefined,    *)
(* "true" / "false" for the booleans the handler compares with ===.  A     *)
(* timer handle is a positive integer, and 0 stands for "no handle"        *)
(* (handlerState.timeout === undefined).                                   *)
(***************************************************************************)
EXTENDS Integers, Sequences, FiniteSets, TLC

Undefined == "undefined"
JsTrue == "true"
JsFalse == "false"
NoTimeout == 0

\* Timer handles the host can hand out; the smallest free one is used.
MaxTimerId == 2

Modes == {"auto", "enabled", "disabled"}
Markers == {"dark-mode", "light-mode"}

\* What the store may hold under the controller's key before construction:
\* nothing, one of the three literals, or something malformed.
PersistedValues == {Undefined, "auto", "enabled", "disabled", "true"}

\* The container's document and an embedded frame's document.
ContainerDocument == "document"
FrameDocument == "frame"

\* Event targets: elements of the two documents, the document node itself
\* (a node with no ownerDocument) and a media query list; the timeout's
\* callback has no event and so no target.
Elements == {"toggler", "sibling", "framed"}
PointerTargets == Elements \cup {ContainerDocument}
MediaQueryList == "mediaQueryList"

DarkMedia == "(prefers-color-scheme: dark)"
LightMedia == "(prefers-color-scheme: light)"
DownTypes == {"mousedown", "pointerdown"}
UpTypes == {"mouseup", "pointerup"}
\* Event types that are none of the six recognised triggers.  "click" matches
\* no alternative of the trigger pattern; "MOUSEDOWN" matches it through the
\* pattern's i flag and is returned as written.
OtherTypes == {"click", "MOUSEDOWN"}

VARIABLES
  pc,            \* "new" before the constructor has run, "live" after
  localStorage,  \* [available, value]: the store and the value under this.key
  mediaQueries,  \* [prefersDarkMode, prefersLightMode]: .matches, or undefined
  classList,     \* the marker classes on the container
  state,         \* this.state
  prefers,       \* this.prefers
  handlerState,  \* handleEvent[Symbol.for('dark-mode.toggler.handler.state')]
  timers,        \* handles of the host's pending timeouts
  listeners,     \* documents carrying the capture-phase up-listener
  subscribed,    \* preference feeds this.handleEvent is a listener of
  lastOp,        \* the operation that ran last, with its event or argument
  calls,         \* the toggle invocations the last operation made
  writes,        \* the values the last operation wrote to the store
  thrown,        \* the error the last operation threw, or undefined
  requestedTimeout,  \* options.longPressTimeout, as the constructor gets it
  longPressTimeout   \* this.longPressTimeout

vars == <<pc, localStorage, mediaQueries, classList, state, prefers,
          handlerState, timers, listeners, subscribed, lastOp, calls, writes,
          thrown, requestedTimeout, longPressTimeout>>

\* getMediaQueriesFromContainer: both feeds, each matching or not, or the
\* empty record of a context that supports no media queries.
MediaQueries ==
  [prefersDarkMode : {JsTrue, JsFalse}, prefersLightMode : {JsTrue, JsFalse}]
    \cup {[prefersDarkMode |-> Undefined, prefersLightMode |-> Undefined]}

NoEvent == [type |-> Undefined, media |-> Undefined, matches |-> Undefined,
            target |-> Undefined]

\* What lastOp records: the operation, for an event its kind, target and
\* matches, for toggle its argument.
Op(name, kind, target, arg) ==
  [op |-> name, kind |-> kind, target |-> target, arg |-> arg]

\* The handler state before the first event has been delivered.
NoHandlerState == [created |-> FALSE, action |-> Undefined,
                   committed |-> Undefined, target |-> Undefined,
                   timeout |-> NoTimeout, targets |-> {}]

----------------------------------------------------------------------------
\* The controller fields toggle reads and writes.
Controller == [state |-> state, prefers |-> prefers,
               localStorage |-> localStorage, classList |-> classList,
               writes |-> <<>>]

\* if (auto === true) { ... this.prefers = ... }
togglePrefers(c, requested, auto) ==
  IF auto = JsTrue /\ requested = JsTrue THEN "dark"
  ELSE IF auto = JsTrue /\ requested = JsFalse THEN "light"
  ELSE c.prefers

\* Mutant: an absent argument inverts the mode instead of the marker.
toggleNextState_fromState(c, requested, auto) ==
  IF requested = "auto" THEN togglePrefers(c, requested, auto) # "light"
  ELSE IF requested # Undefined THEN requested # JsFalse
  ELSE c.state # "enabled"

\* Mutant: an explicit boolean is not honoured, the marker is inverted.
toggleNextState_alwaysInverts(c, requested, auto) ==
  IF requested = "auto" THEN togglePrefers(c, requested, auto) # "light"
  ELSE "dark-mode" \notin c.classList

\* const nextState = ...
toggleNextState(c, requested, auto) ==
  IF requested = "auto" THEN togglePrefers(c, requested, auto) # "light"
  ELSE IF requested # Undefined THEN requested # JsFalse
  ELSE "dark-mode" \notin c.classList

\* this.state = state === 'auto' || auto ? 'auto' : nextState ? ...
toggleState(c, requested, auto) ==
  IF requested = "auto" \/ auto = JsTrue THEN "auto"
  ELSE IF toggleNextState(c, requested, auto) THEN "enabled"
  ELSE "disabled"

\* Mutant: the resolved boolean scheme is persisted instead of the mode.
toggleStore_scheme(c, requested, auto) ==
  IF c.localStorage.available
    THEN [c.localStorage EXCEPT
            !.value = IF toggleNextState(c, requested, auto) THEN JsTrue
                                                              ELSE JsFalse]
    ELSE c.localStorage

\* this.localStorage && this.key && (this.localStorage[this.key] = this.state)
toggleStore(c, requested, auto) ==
  IF c.localStorage.available
    THEN [c.localStorage EXCEPT !.value = toggleState(c, requested, auto)]
    ELSE c.localStorage

toggleWrites(c, requested, auto) ==
  IF c.localStorage.available
    THEN <<toggleState(c, requested, auto)>>
    ELSE <<>>

\* Mutant: the marker is added and the other one is not removed.
toggleClassList_addOnly(c, requested, auto) ==
  IF toggleNextState(c, requested, auto)
    THEN c.classList \cup {"dark-mode"}
    ELSE c.classList \cup {"light-mode"}

\* classList.add(...); classList.remove(...)
toggleClassList(c, requested, auto) ==
  IF toggleNextState(c, requested, auto)
    THEN (c.classList \cup {"dark-mode"}) \ {"light-mode"}
    ELSE (c.classList \cup {"light-mode"}) \ {"dark-mode"}

\* Mutant: an auto-driven call does not return early in a manual mode.
toggle_noEarlyReturn(c, requested, auto) ==
  [state |-> toggleState(c, requested, auto),
   prefers |-> togglePrefers(c, requested, auto),
   localStorage |-> toggleStore(c, requested, auto),
   classList |-> toggleClassList(c, requested, auto),
   writes |-> toggleWrites(c, requested, auto)]

\* toggle(state, auto) on the controller c: the controller afterwards.
toggle(c, requested, auto) ==
  IF auto = JsTrue /\ c.state # "auto"
    THEN [c EXCEPT !.prefers = togglePrefers(c, requested, auto),
                   !.writes = <<>>]
    ELSE [state |-> toggleState(c, requested, auto),
          prefers |-> togglePrefers(c, requested, auto),
          localStorage |-> toggleStore(c, requested, auto),
          classList |-> toggleClassList(c, requested, auto),
          writes |-> toggleWrites(c, requested, auto)]

Call(requested, auto) == [state |-> requested, auto |-> auto]

\* The controller variables become those of c.
Becomes(c) ==
  /\ state' = c.state
  /\ prefers' = c.prefers
  /\ localStorage' = c.localStorage
  /\ classList' = c.classList
  /\ writes' = c.writes

----------------------------------------------------------------------------
\* The long-press timeout's limits and default, in milliseconds.
MinLongPress == 1500
MaxLongPress == 10000
DefaultLongPress == 2000

\* A requested timeout is a number, held in tenths of a millisecond so that
\* rounding has something to round, or not a number (an absent option, or
\* one that converts to NaN).
Tenths(n) == [nan |-> FALSE, tenths |-> n]
NotANumber == [nan |-> TRUE, tenths |-> 0]

\* The requests tried: every tenth within TimeoutWindow tenths of zero, of
\* the limits, of the default and of twice the upper limit, and NaN.
TimeoutWindow == 12
RequestedTimeouts ==
  {NotANumber} \cup
  {Tenths(10 * ms + d) :
     ms \in {0, MinLongPress, DefaultLongPress, MaxLongPress, 2 * MaxLongPress},
     d \in (0 - TimeoutWindow)..TimeoutWindow}

\* Math.round: the nearest integer, a half rounding up; NaN stays NaN.
mathRound(x) ==
  [nan |-> x.nan, value |-> IF x.nan THEN 0 ELSE (x.tenths + 5) \div 10]

\* Mutant: the lower limit is not applied.
constructedTimeout_noFloor(x) ==
  LET rounded == mathRound(x)
  IN IF ~rounded.nan /\ rounded.value > 0
       THEN IF rounded.value <= MaxLongPress THEN rounded.value
                                             ELSE MaxLongPress
       ELSE DefaultLongPress

\* The constructor's longPressTimeout: the rounded request when positive,
\* lowered to the upper limit and raised to the lower one; else the default.
constructedTimeout(x) ==
  LET rounded == mathRound(x)
      capped == IF rounded.value <= MaxLongPress THEN rounded.value
                                                 ELSE MaxLongPress
      floored == IF capped >= MinLongPress THEN capped ELSE MinLongPress
  IN IF ~rounded.nan /\ rounded.value > 0 THEN floored ELSE DefaultLongPress

\* Everything but the requested timeout, before the constructor runs.
InitController ==
  /\ pc = "new"
  /\ longPressTimeout = DefaultLongPress
  /\ localStorage \in
       {[available |-> FALSE, value |-> Undefined]} \cup
       {[available |-> TRUE, value |-> v] : v \in PersistedValues}
  /\ mediaQueries \in MediaQueries
  /\ classList \in SUBSET Markers
  /\ state = Undefined
  /\ prefers = Undefined
  /\ handlerState = NoHandlerState
  /\ timers = {}
  /\ listeners = {}
  /\ subscribed = {}
  /\ lastOp = Op("new", Undefined, Undefined, Undefined)
  /\ calls = <<>>
  /\ writes = <<>>
  /\ thrown = Undefined

\* A controller constructed without a longPressTimeout option.
Init == InitController /\ requestedTimeout = NotANumber

\* A controller constructed with any of the requested timeouts.
InitTimeout == InitController /\ requestedTimeout \in RequestedTimeouts

\* Mutant: dark only when a feed says so, so absent feeds resolve to light.
constructorPrefersDark_needsFeed(queries) ==
  \/ queries.prefersDarkMode = JsTrue
  \/ queries.prefersLightMode = JsFalse

\* The first argument of the constructor's toggle call: dark unless the
\* light feed matches and the dark feed does not.
constructorPrefersDark(queries) ==
  \/ queries.prefersDarkMode = JsTrue
  \/ queries.prefersLightMode # JsTrue

\* The controller after the constructor's if (localStorage) { ... } block.
constructed(c, queries) ==
  IF ~c.localStorage.available THEN c
  ELSE IF c.localStorage.value = "enabled"
    THEN toggle([c EXCEPT !.state = "enabled"], JsTrue, Undefined)
  ELSE IF c.localStorage.value = "disabled"
    THEN toggle([c EXCEPT !.state = "disabled"], JsFalse, Undefined)
  ELSE LET first == IF constructorPrefersDark(queries) THEN JsTrue ELSE JsFalse
           c1 == [c EXCEPT !.state = "auto", !.localStorage.value = "auto"]
           c2 == toggle(c1, first, JsTrue)
       IN [c2 EXCEPT !.writes = <<"auto">> \o c2.writes]

constructorCalls(c, queries) ==
  IF ~c.localStorage.available THEN <<>>
  ELSE IF c.localStorage.value = "enabled" THEN <<Call(JsTrue, Undefined)>>
  ELSE IF c.localStorage.value = "disabled" THEN <<Call(JsFalse, Undefined)>>
  ELSE <<Call(IF constructorPrefersDark(queries) THEN JsTrue ELSE JsFalse,
              JsTrue)>>

\* mediaQueries.prefersDarkMode.addListener(...), prefersLightMode likewise
constructorSubscribed(c, queries) ==
  IF ~c.localStorage.available THEN {}
  ELSE {f \in {"prefersDarkMode", "prefersLightMode"} : queries[f] # Undefined}

Construct ==
  /\ pc = "new"
  /\ pc' = "live"
  /\ Becomes(constructed(Controller, mediaQueries))
  /\ calls' = constructorCalls(Controller, mediaQueries)
  /\ subscribed' = constructorSubscribed(Controller, mediaQueries)
  /\ lastOp' = Op("construct", Undefined, Undefined, Undefined)
  /\ thrown' = Undefined
  /\ longPressTimeout' = constructedTimeout(requestedTimeout)
  /\ UNCHANGED <<mediaQueries, handlerState, timers, listeners,
                 requestedTimeout>>

\* The public toggle(state), enable() and disable().
\* The values a caller passes for the optional second parameter, auto:
\* absent or true.  toggle tests auto === true and the truth of auto only,
\* so false acts as absent does.
AutoArguments == {Undefined, JsTrue}

Toggle ==
  /\ pc = "live"
  /\ \E requested \in {JsTrue, JsFalse, "auto", Undefined},
        auto \in AutoArguments :
       /\ Becomes(toggle(Controller, requested, auto))
       /\ calls' = <<Call(requested, auto)>>
       /\ lastOp' = Op("toggle", Undefined, Undefined, requested)
  /\ thrown' = Undefined
  /\ UNCHANGED <<pc, requestedTimeout, longPressTimeout, mediaQueries,
                 handlerState, timers, listeners, subscribed>>

\* enable is toggle bound to true: its argument is toggle's auto.
Enable ==
  /\ pc = "live"
  /\ \E auto \in AutoArguments :
       /\ Becomes(toggle(Controller, JsTrue, auto))
       /\ calls' = <<Call(JsTrue, auto)>>
  /\ lastOp' = Op("enable", Undefined, Undefined, Undefined)
  /\ thrown' = Undefined
  /\ UNCHANGED <<pc, requestedTimeout, longPressTimeout, mediaQueries,
                 handlerState, timers, listeners, subscribed>>

\* disable is toggle bound to false: its argument is toggle's auto.
Disable ==
  /\ pc = "live"
  /\ \E auto \in AutoArguments :
       /\ Becomes(toggle(Controller, JsFalse, auto))
       /\ calls' = <<Call(JsFalse, auto)>>
  /\ lastOp' = Op("disable", Undefined, Undefined, Undefined)
  /\ thrown' = Undefined
  /\ UNCHANGED <<pc, requestedTimeout, longPressTimeout, mediaQueries,
                 handlerState, timers, listeners, subscribed>>

----------------------------------------------------------------------------
\* DarkModeController.matchTrigger: group 1 of
\* /(^mouseup$|^mousedown$|^pointerup$|^pointerdown$|\blight\b|\bdark\b)|$/i
\* on the event's media or type; undefined when only the empty alternative
\* matches.  The text is returned as written, so a type in another case is
\* matched and returned in that case.
matchTrigger(source) ==
  IF source \in DownTypes \cup UpTypes THEN source
  ELSE IF source = DarkMedia THEN "dark"
  ELSE IF source = LightMedia THEN "light"
  ELSE IF source = "MOUSEDOWN" THEN "MOUSEDOWN"
  ELSE Undefined

\* event.media || event.type
triggerSource(event) ==
  IF event.media # Undefined THEN event.media ELSE event.type

\* (target && target.ownerDocument) || undefined
ownerDocumentOf(target) ==
  IF target \in {"toggler", "sibling"} THEN ContainerDocument
  ELSE IF target = "framed" THEN FrameDocument
  ELSE Undefined

\* The handler state the handler starts from: created on the first event,
\* with the container's document as its first registered context.
lazyHandlerState(h) ==
  IF h.created THEN h
  ELSE [NoHandlerState EXCEPT !.created = TRUE,
                              !.targets = {ContainerDocument}]

\* addEventListener('onmouseup' in this.container ? 'mouseup' : 'pointerup',
\* this.handleEvent, true): an element has onmouseup, so the type is mouseup.
UpListener(context) ==
  [context |-> context, type |-> "mouseup", capture |-> TRUE]

lazyListeners(h, installed) ==
  IF h.created THEN installed
  ELSE installed \cup {UpListener(ContainerDocument)}

\* if (handlerState.timeout !== undefined) { clearTimeout(...); ... }
clearedTimers(h, pending) ==
  IF h.timeout # NoTimeout THEN pending \ {h.timeout} ELSE pending

clearedTimeout(h) ==
  IF h.timeout # NoTimeout THEN [h EXCEPT !.timeout = NoTimeout] ELSE h

\* A context seen for the first time gets the up-listener.
isNewContext(h, ownerDocument) ==
  /\ ownerDocument # Undefined
  /\ ownerDocument # ContainerDocument
  /\ ownerDocument \notin h.targets

registeredContexts(h, ownerDocument) ==
  IF isNewContext(h, ownerDocument)
    THEN [h EXCEPT !.targets = @ \cup {ownerDocument}]
    ELSE h

registeredListeners(h, ownerDocument, installed) ==
  IF isNewContext(h, ownerDocument)
    THEN installed \cup {UpListener(ownerDocument)}
    ELSE installed

\* The handle setTimeout returns: the smallest one not pending.
newTimeout(pending) ==
  CHOOSE id \in (1..MaxTimerId) \ pending :
    \A other \in (1..MaxTimerId) \ pending : id <= other

\* The switch (trigger) of handleEvent: the handler state afterwards, the
\* toggle calls made, and whether a timeout was started.
Classified(h, made, starts) == [handler |-> h, calls |-> made, starts |-> starts]

\* Mutant: the preference event's toggle call is not flagged auto-driven.
systemCase_notAuto(h, trigger, event) ==
  Classified([h EXCEPT !.committed = Undefined, !.target = Undefined],
             IF event.matches = JsTrue
               THEN <<Call(IF trigger = "dark" THEN JsTrue ELSE JsFalse,
                           Undefined)>>
               ELSE <<>>,
             FALSE)

\* Mutant: a preference event leaves the capture in flight.
systemCase_keepsCapture(h, trigger, event) ==
  Classified(h,
             IF event.matches = JsTrue
               THEN <<Call(IF trigger = "dark" THEN JsTrue ELSE JsFalse, JsTrue)>>
               ELSE <<>>,
             FALSE)

systemCase(h, trigger, event) ==
  Classified([h EXCEPT !.committed = Undefined, !.target = Undefined],
             IF event.matches = JsTrue
               THEN <<Call(IF trigger = "dark" THEN JsTrue ELSE JsFalse, JsTrue)>>
               ELSE <<>>,
             FALSE)

undefinedCase(h) ==
  IF h.target # Undefined /\ h.committed = JsFalse
    THEN Classified([h EXCEPT !.action = "auto", !.committed = JsTrue],
                    <<Call("auto", Undefined)>>, FALSE)
    ELSE Classified([h EXCEPT !.action = "ignore"], <<>>, FALSE)

\* Mutant: an up-event on the held target toggles even after the commit.
upCase_ignoresCommitted(h, target) ==
  IF h.target = Undefined
    THEN Classified([h EXCEPT !.action = "ignore"], <<>>, FALSE)
  ELSE IF h.target = target
    THEN Classified([h EXCEPT !.action = "toggle", !.committed = Undefined,
                              !.target = Undefined],
                    <<Call(Undefined, Undefined)>>, FALSE)
  ELSE Classified([h EXCEPT !.action = "release", !.committed = Undefined,
                            !.target = Undefined],
                  <<>>, FALSE)

\* Mutant: an up-event toggles whatever its target.
upCase_anyTarget(h, target) ==
  IF h.target = Undefined
    THEN Classified([h EXCEPT !.action = "ignore"], <<>>, FALSE)
  ELSE IF h.committed = JsFalse
    THEN Classified([h EXCEPT !.action = "toggle", !.committed = Undefined,
                              !.target = Undefined],
                    <<Call(Undefined, Undefined)>>, FALSE)
  ELSE Classified([h EXCEPT !.action = "release", !.committed = Undefined,
                            !.target = Undefined],
                  <<>>, FALSE)

upCase(h, target) ==
  IF h.target = Undefined
    THEN Classified([h EXCEPT !.action = "ignore"], <<>>, FALSE)
  ELSE IF h.target = target /\ h.committed = JsFalse
    THEN Classified([h EXCEPT !.action = "toggle", !.committed = Undefined,
                              !.target = Undefined],
                    <<Call(Undefined, Undefined)>>, FALSE)
  ELSE Classified([h EXCEPT !.action = "release", !.committed = Undefined,
                            !.target = Undefined],
                  <<>>, FALSE)

\* Mutant: a down-event that finds the long press committed releases it
\* instead of capturing.
downCase_releasesCommitted(h, target, ownerDocument) ==
  IF target = Undefined \/ ownerDocument = Undefined \/ h.committed = JsTrue
    THEN IF h.target = Undefined
           THEN Classified([h EXCEPT !.action = "ignore"], <<>>, FALSE)
           ELSE Classified([h EXCEPT !.action = "release",
                                     !.committed = Undefined,
                                     !.target = Undefined],
                           <<>>, FALSE)
    ELSE Classified([h EXCEPT !.action = "capture", !.target = target,
                              !.committed = JsFalse],
                    <<>>, TRUE)

downCase(h, target, ownerDocument) ==
  IF target = Undefined \/ ownerDocument = Undefined
    THEN IF h.target = Undefined
           THEN Classified([h EXCEPT !.action = "ignore"], <<>>, FALSE)
           ELSE Classified([h EXCEPT !.action = "release",
                                     !.committed = Undefined,
                                     !.target = Undefined],
                           <<>>, FALSE)
    ELSE Classified([h EXCEPT !.action = "capture", !.target = target,
                              !.committed = JsFalse],
                    <<>>, TRUE)

classify(h, trigger, event, target, ownerDocument) ==
  IF trigger \in {"dark", "light"} THEN systemCase(h, trigger, event)
  ELSE IF trigger = Undefined THEN undefinedCase(h)
  ELSE IF trigger \in UpTypes THEN upCase(h, target)
  ELSE IF trigger \in DownTypes THEN downCase(h, target, ownerDocument)
  ELSE Classified(h, <<>>, FALSE)

\* The case of the switch a trigger selects.
kindOf(trigger) ==
  IF trigger \in DownTypes THEN "down"
  ELSE IF trigger \in UpTypes THEN "up"
  ELSE IF trigger \in {"dark", "light"} THEN trigger
  ELSE IF trigger = Undefined THEN "unmatched"
  ELSE "default"

\* The controller after the toggle calls of one handler run, in order.
RECURSIVE afterCalls(_, _)
afterCalls(c, made) ==
  IF made = <<>> THEN c
  ELSE LET c1 == toggle(c, Head(made).state, Head(made).auto)
       IN afterCalls([c1 EXCEPT !.writes = c.writes \o c1.writes], Tail(made))

\* handleEvent(event), entered with the host's timeouts `pending`.
handleEvent(event, pending, op) ==
  LET h0 == lazyHandlerState(handlerState)
      target == event.target
      trigger == matchTrigger(triggerSource(event))
      ownerDocument == ownerDocumentOf(target)
      pending1 == clearedTimers(h0, pending)
      h1 == registeredContexts(clearedTimeout(h0), ownerDocument)
      result == classify(h1, trigger, event, target, ownerDocument)
  IN /\ pc = "live"
     /\ result.starts => (1..MaxTimerId) \ pending1 # {}
     /\ handlerState' =
          IF result.starts
            THEN [result.handler EXCEPT !.timeout = newTimeout(pending1)]
            ELSE result.handler
     /\ timers' = IF result.starts
                    THEN pending1 \cup {newTimeout(pending1)}
                    ELSE pending1
     /\ listeners' = registeredListeners(clearedTimeout(h0), ownerDocument,
                                         lazyListeners(handlerState, listeners))
     /\ Becomes(afterCalls(Controller, result.calls))
     /\ calls' = result.calls
     /\ lastOp' = Op(op, kindOf(trigger), target, event.matches)
     /\ thrown' = Undefined
     /\ UNCHANGED <<pc, requestedTimeout, longPressTimeout, subscribed>>

PointerEvent(type, target) ==
  [type |-> type, media |-> Undefined, matches |-> Undefined, target |-> target]

SystemEventOf(media, matches) ==
  [type |-> "change", media |-> media, matches |-> matches,
   target |-> MediaQueryList]

\* A mousedown / pointerdown reaches the handler.
Down ==
  \E type \in DownTypes, target \in PointerTargets :
    /\ handleEvent(PointerEvent(type, target), timers, "event")
    /\ UNCHANGED mediaQueries

\* A mouseup / pointerup reaches the handler.
Up ==
  \E type \in UpTypes, target \in PointerTargets :
    /\ handleEvent(PointerEvent(type, target), timers, "event")
    /\ UNCHANGED mediaQueries

\* An event of another type reaches the handler.
Other ==
  \E type \in OtherTypes, target \in PointerTargets :
    /\ handleEvent(PointerEvent(type, target), timers, "event")
    /\ UNCHANGED mediaQueries

\* The long-press timeout expires: the host calls handleEvent with no event.
TimerFires ==
  \E id \in timers :
    /\ handleEvent(NoEvent, timers \ {id}, "timer")
    /\ UNCHANGED mediaQueries

Flipped(matches) == IF matches = JsTrue THEN JsFalse ELSE JsTrue

\* A preference feed changes and notifies its listeners.
SystemChange ==
  \E feed \in {"prefersDarkMode", "prefersLightMode"} :
    /\ pc = "live"
    /\ mediaQueries[feed] # Undefined
    /\ mediaQueries' = [mediaQueries EXCEPT ![feed] = Flipped(@)]
    /\ IF feed \in subscribed
         THEN handleEvent(
                SystemEventOf(IF feed = "prefersDarkMode" THEN DarkMedia
                                                          ELSE LightMedia,
                              Flipped(mediaQueries[feed])),
                timers, "event")
         ELSE UNCHANGED <<pc, requestedTimeout, longPressTimeout,
                          localStorage, classList, state, prefers,
                          handlerState, timers, listeners, subscribed, lastOp,
                          calls, writes, thrown>>

\* detach(): throws before the handler state exists; otherwise empties the
\* registered contexts, asking each to remove listeners of the types
\* 'onmousedown', 'onmouseup', 'onpointerdown', 'onpointerup', which are not
\* the types the up-listener was added under.
detachThrows(h) == ~h.created

detached(h) == [h EXCEPT !.targets = {}]

\* The types detach passes to removeEventListener, with no capture flag.
DetachTypes == {"onmousedown", "onmouseup", "onpointerdown", "onpointerup"}

\* removeEventListener removes the listener of that context, type and
\* capture flag, if there is one.
detachedListeners(h, installed) ==
  IF h.targets = {} THEN installed
  ELSE installed \
         {[context |-> context, type |-> type, capture |-> FALSE] :
            context \in h.targets, type \in DetachTypes}

\* detach() has no statement on the preference feeds.
detachedSubscribed(feeds) == feeds

Detach ==
  /\ pc = "live"
  /\ IF detachThrows(handlerState)
       THEN /\ thrown' = "TypeError"
            /\ UNCHANGED <<handlerState, listeners, subscribed>>
       ELSE /\ thrown' = Undefined
            /\ handlerState' = detached(handlerState)
            /\ listeners' = detachedListeners(handlerState, listeners)
            /\ subscribed' = detachedSubscribed(subscribed)
  /\ lastOp' = Op("detach", Undefined, Undefined, Undefined)
  /\ calls' = <<>>
  /\ writes' = <<>>
  /\ UNCHANGED <<pc, requestedTimeout, longPressTimeout, localStorage,
                 mediaQueries, classList, state, prefers, timers>>

Next ==
  \/ Construct
  \/ Toggle
  \/ Enable
  \/ Disable
  \/ Down
  \/ Up
  \/ Other
  \/ TimerFires
  \/ SystemChange
  \/ Detach

Spec == Init /\ [][Next]_vars

\* Construction alone, over the requested timeouts.
SpecTimeout == InitTimeout /\ [][Construct]_vars

\* The controller with its timer host: a timeout callback that stays
\* pending is eventually run.
SpecFair == Init /\ [][Next]_vars /\ WF_vars(TimerFires)

----------------------------------------------------------------------------
\* Readings of the state used by the properties below.

IsEvent(op, kind) == op.op = "event" /\ op.kind = kind

\* A down-event whose target has an owning document.
IsDownOn(op, target) ==
  IsEvent(op, "down") /\ op.target = target /\ target \in Elements

IsSystemEvent(op) == op.op = "event" /\ op.kind \in {"dark", "light"}

Idle(h) ==
  h.target = Undefined /\ h.committed = Undefined /\ h.timeout = NoTimeout

MarkerOf(scheme) == IF scheme = "dark" THEN {"dark-mode"} ELSE {"light-mode"}

ExplicitStates == {JsTrue, JsFalse, "auto"}

----------------------------------------------------------------------------
\* C1: a down-event on an element followed directly by an up-event on the
\* same element makes exactly one toggle() call, classifies as "toggle",
\* inverts the mode (enabled to disabled, disabled to enabled, from auto to
\* the opposite of the marker applied before) and leaves the handler idle
\* with no timeout pending.
C1_TapToggles ==
  [][\A t \in Elements :
       (IsDownOn(lastOp, t) /\ IsEvent(lastOp', "up") /\ lastOp'.target = t)
         => /\ calls' = <<Call(Undefined, Undefined)>>
            /\ handlerState'.action = "toggle"
            /\ state = "enabled" => state' = "disabled"
            /\ state = "disabled" => state' = "enabled"
            /\ state = "auto" =>
                 state' = IF "dark-mode" \in classList THEN "disabled"
                                                       ELSE "enabled"
            /\ state' \in {"enabled", "disabled"}
            /\ Idle(handlerState')
            /\ timers' = {}]_vars

C1_Witness ==
  /\ IsEvent(lastOp, "up")
  /\ lastOp.target = "toggler"
  /\ handlerState.action = "toggle"
  /\ calls = <<Call(Undefined, Undefined)>>
  /\ state = "disabled"
  /\ classList = {"light-mode"}
  /\ Idle(handlerState)

\* C2: when the long-press timeout fires, exactly one toggle("auto") is made
\* and the mode is auto; an up-event that then arrives on the held target is
\* classified as release, makes no toggle call and leaves the mode auto.
C2_LongPress ==
  [][/\ (timers # {} /\ lastOp'.op = "timer")
          => /\ calls' = <<Call("auto", Undefined)>>
             /\ state' = "auto"
             /\ handlerState'.action = "auto"
             /\ handlerState'.committed = JsTrue
             /\ handlerState'.target = handlerState.target
     /\ (/\ lastOp.op = "timer"
         /\ handlerState.committed = JsTrue
         /\ IsEvent(lastOp', "up")
         /\ lastOp'.target = handlerState.target)
          => /\ handlerState'.action = "release"
             /\ calls' = <<>>
             /\ state = "auto"
             /\ state' = "auto"
             /\ Idle(handlerState')]_vars

C2_Witness ==
  /\ lastOp.op = "timer"
  /\ handlerState.committed = JsTrue
  /\ handlerState.action = "auto"
  /\ handlerState.target = "toggler"
  /\ calls = <<Call("auto", Undefined)>>
  /\ state = "auto"

\* C3: a down-event on an element followed directly by an up-event on a
\* different target is classified as release: no toggle call, mode, markers
\* and persisted value unchanged, nothing written, handler idle.
C3_OtherTargetReleases ==
  [][\A t \in Elements :
       (IsDownOn(lastOp, t) /\ IsEvent(lastOp', "up") /\ lastOp'.target # t)
         => /\ handlerState'.action = "release"
            /\ calls' = <<>>
            /\ writes' = <<>>
            /\ UNCHANGED <<state, classList, localStorage>>
            /\ Idle(handlerState')]_vars

C3_Witness ==
  /\ IsEvent(lastOp, "up")
  /\ lastOp.target = "sibling"
  /\ handlerState.action = "release"
  /\ calls = <<>>
  /\ state = "enabled"
  /\ Idle(handlerState)

\* C4: construction with a store: persisted "enabled" gives mode enabled and
\* the dark marker, persisted "disabled" gives mode disabled and the light
\* marker whatever the feeds say, and anything else gives mode auto, "auto"
\* written to the store, and the dark marker unless the light feed matches
\* and the dark feed does not.
C4_InitialResolution ==
  [][(pc = "new" /\ pc' = "live" /\ localStorage.available)
       => /\ localStorage.value = "enabled"
               => state' = "enabled" /\ classList' = {"dark-mode"}
          /\ localStorage.value = "disabled"
               => state' = "disabled" /\ classList' = {"light-mode"}
          /\ localStorage.value \notin {"enabled", "disabled"}
               => /\ state' = "auto"
                  /\ localStorage'.value = "auto"
                  /\ writes' # <<>>
                  /\ \A i \in DOMAIN writes' : writes'[i] = "auto"
                  /\ classList' =
                       IF /\ mediaQueries.prefersLightMode = JsTrue
                          /\ mediaQueries.prefersDarkMode # JsTrue
                         THEN {"light-mode"}
                         ELSE {"dark-mode"}]_vars

C4_Witness ==
  /\ lastOp.op = "construct"
  /\ localStorage.available
  /\ state = "auto"
  /\ localStorage.value = "auto"
  /\ mediaQueries.prefersLightMode = JsTrue
  /\ classList = {"light-mode"}

\* C5: once the constructor has run, the mode is one of auto, enabled,
\* disabled, with or without a store.
C5_ModeDefined == pc = "live" => state \in Modes

\* C6: once a toggle has resolved the visual state (the mode is set from then
\* on), exactly one of the two markers is on the container.
C6_OneMarker ==
  (pc = "live" /\ state \in Modes) => Cardinality(classList \cap Markers) = 1

C6_Witness ==
  /\ ~localStorage.available
  /\ lastOp.op = "timer"
  /\ state = "auto"
  /\ classList = {"dark-mode"}

\* C7: with a store, after construction and after every operation the value
\* under the key is the mode, one of the three literals, and nothing else was
\* written on the way.
C7_StoreHoldsMode ==
  (pc = "live" /\ localStorage.available)
    => /\ localStorage.value = state
       /\ localStorage.value \in Modes
       /\ \A i \in DOMAIN writes : writes[i] \in Modes

C7_Witness ==
  /\ localStorage.available
  /\ IsEvent(lastOp, "up")
  /\ handlerState.action = "toggle"
  /\ writes = <<"disabled">>
  /\ localStorage.value = "disabled"
  /\ state = "disabled"

\* C8 as stated: in mode auto a preference event with a positive match
\* applies that scheme's marker, leaves the mode and the persisted value
\* "auto", and performs no write to the store.
C8_NoWrite ==
  [][(state = "auto" /\ IsSystemEvent(lastOp') /\ lastOp'.arg = JsTrue)
       => /\ classList' = MarkerOf(lastOp'.kind)
          /\ state' = "auto"
          /\ localStorage' = localStorage
          /\ writes' = <<>>]_vars

\* C8 amended: in mode auto a preference event with a positive match
\* applies that scheme's marker and leaves the mode and the persisted value
\* "auto"; the store is written once, with the unchanged value "auto".
C8_AutoFollowsSystem ==
  [][(state = "auto" /\ IsSystemEvent(lastOp') /\ lastOp'.arg = JsTrue)
       => /\ classList' = MarkerOf(lastOp'.kind)
          /\ state' = "auto"
          /\ prefers' = lastOp'.kind
          /\ localStorage' = localStorage
          /\ localStorage.value = "auto"
          /\ writes' = <<"auto">>]_vars

C8_Witness ==
  /\ IsEvent(lastOp, "dark")
  /\ lastOp.arg = JsTrue
  /\ state = "auto"
  /\ classList = {"dark-mode"}
  /\ localStorage.value = "auto"
  /\ writes = <<"auto">>
  /\ calls = <<Call(JsTrue, JsTrue)>>

\* C9: in mode enabled or disabled a preference event changes at most the
\* last-observed preference (set to the event's scheme on a positive match):
\* mode, markers and persisted value stay, and nothing is written.
C9_ManualIgnoresSystem ==
  [][(state \in {"enabled", "disabled"} /\ IsSystemEvent(lastOp'))
       => /\ UNCHANGED <<state, classList, localStorage>>
          /\ writes' = <<>>
          /\ prefers' = IF lastOp'.arg = JsTrue THEN lastOp'.kind
                                                ELSE prefers]_vars

C9_Witness ==
  /\ IsEvent(lastOp, "light")
  /\ lastOp.arg = JsTrue
  /\ calls = <<Call(JsFalse, JsTrue)>>
  /\ state = "enabled"
  /\ prefers = "light"
  /\ classList = {"dark-mode"}
  /\ localStorage.value = "enabled"

\* C10: from every state of a live controller, toggle(s) for s one of true,
\* false, "auto" called a second time leaves mode, markers and persisted
\* value as the first call left them; toggle(true) twice ends enabled with
\* the dark marker alone.
C10_ExplicitToggleIdempotent ==
  pc = "live" =>
    \A s \in ExplicitStates :
      LET once == toggle(Controller, s, Undefined)
          twice == toggle(once, s, Undefined)
      IN /\ twice.state = once.state
         /\ twice.classList = once.classList
         /\ twice.localStorage = once.localStorage
         /\ s = JsTrue =>
              twice.state = "enabled" /\ twice.classList = {"dark-mode"}

C10_Witness ==
  /\ lastOp.op = "toggle"
  /\ lastOp.arg = JsTrue
  /\ state = "enabled"
  /\ classList = {"dark-mode"}
  /\ localStorage = [available |-> TRUE, value |-> "enabled"]
  /\ toggle(Controller, JsTrue, Undefined).state = state
  /\ toggle(Controller, JsTrue, Undefined).classList = classList

----------------------------------------------------------------------------
\* C11: after detach() has returned, no up-listener of this instance is left
\* on any context and the instance listens to neither preference feed.
C11_DetachRemovesListeners ==
  (lastOp.op = "detach" /\ thrown = Undefined)
    => listeners = {} /\ subscribed = {}

\* C12: detach() never throws: not before the first event, not after any
\* sequence of events, not when called a second time.
C12_DetachNeverThrows == lastOp.op = "detach" => thrown = Undefined

\* C13 as stated: the constructed timeout lies within the limits; a request
\* within the limits is kept, rounded; a request outside them, or one that
\* is not a number, gives the default.
C13_DefaultWhenOutOfRange ==
  pc = "live" =>
    /\ longPressTimeout \in MinLongPress..MaxLongPress
    /\ (/\ ~requestedTimeout.nan
        /\ requestedTimeout.tenths >= 10 * MinLongPress
        /\ requestedTimeout.tenths <= 10 * MaxLongPress)
         => /\ 10 * longPressTimeout - requestedTimeout.tenths <= 5
            /\ requestedTimeout.tenths - 10 * longPressTimeout < 5
    /\ (\/ requestedTimeout.nan
        \/ requestedTimeout.tenths < 10 * MinLongPress
        \/ requestedTimeout.tenths > 10 * MaxLongPress)
         => longPressTimeout = DefaultLongPress

\* C13 amended: the constructed timeout lies within the limits; a request
\* that rounds to a value within them is kept, rounded; one that rounds
\* above the upper limit gives the upper limit, one that rounds to a
\* positive value below the lower limit gives the lower limit; one that
\* rounds to zero or less, or is not a number, gives the default.
C13_TimeoutClamped ==
  pc = "live" =>
    /\ longPressTimeout \in MinLongPress..MaxLongPress
    /\ (/\ ~requestedTimeout.nan
        /\ requestedTimeout.tenths >= 10 * MinLongPress - 5
        /\ requestedTimeout.tenths < 10 * MaxLongPress + 5)
         => /\ 10 * longPressTimeout - requestedTimeout.tenths <= 5
            /\ requestedTimeout.tenths - 10 * longPressTimeout < 5
    /\ (~requestedTimeout.nan /\ requestedTimeout.tenths >= 10 * MaxLongPress + 5)
         => longPressTimeout = MaxLongPress
    /\ (/\ ~requestedTimeout.nan
        /\ requestedTimeout.tenths >= 5
        /\ requestedTimeout.tenths < 10 * MinLongPress - 5)
         => longPressTimeout = MinLongPress
    /\ (requestedTimeout.nan \/ requestedTimeout.tenths < 5)
         => longPressTimeout = DefaultLongPress

C13_Witness ==
  /\ pc = "live"
  /\ requestedTimeout = Tenths(10 * 2 * MaxLongPress)
  /\ longPressTimeout = MaxLongPress

\* C14: after every operation of a live controller the handler holds a
\* timer handle exactly when a target is pending and committed is false.
C14_TimerIffCapturing ==
  pc = "live" =>
    (handlerState.timeout # NoTimeout
       <=> (handlerState.target # Undefined /\ handlerState.committed = JsFalse))

\* C15: once an up-event has been handled, or detach() has returned, no
\* long-press timeout is pending, so none can fire for that gesture.
C15_UpAndDetachCancel ==
  (IsEvent(lastOp, "up") \/ (lastOp.op = "detach" /\ thrown = Undefined))
    => timers = {}

\* An event whose type or media is none of the six recognised triggers.
IsUnrecognized(op) == op.op = "event" /\ op.kind \in {"unmatched", "default"}

\* C16: an unrecognised event makes no toggle call and leaves the mode, the
\* markers, the persisted value, the pending target, committed and the
\* pending timeout as they were.
C16_UnrecognizedIgnored ==
  [][IsUnrecognized(lastOp')
       => /\ calls' = <<>>
          /\ UNCHANGED <<state, classList, localStorage, timers>>
          /\ handlerState'.target = handlerState.target
          /\ handlerState'.committed = handlerState.committed
          /\ handlerState'.timeout = handlerState.timeout]_vars

\* C17: a preference event that arrives while a target is pending clears
\* the target and committed and leaves no timeout pending; the up-event
\* that follows it, on whatever target, is ignored and makes no toggle call.
C17_SystemEventInterrupts ==
  [][/\ (handlerState.target # Undefined /\ IsSystemEvent(lastOp'))
          => /\ Idle(handlerState')
             /\ timers' = {}
     /\ (IsSystemEvent(lastOp) /\ IsEvent(lastOp', "up"))
          => /\ handlerState'.action = "ignore"
             /\ calls' = <<>>
             /\ UNCHANGED <<state, classList, localStorage>>
             /\ Idle(handlerState')
             /\ timers' = {}]_vars

\* The handler still shows the capture as its last classification: the
\* preference event arrived on top of it.
C17_Witness ==
  /\ IsSystemEvent(lastOp)
  /\ handlerState.action = "capture"
  /\ Idle(handlerState)
  /\ timers = {}

\* C18 as stated: a down-event on an element that finds the long press
\* committed is treated as release: target and committed cleared, no
\* timeout started, no toggle call.
C18_DownAfterCommitReleases ==
  [][(/\ handlerState.committed = JsTrue
      /\ IsEvent(lastOp', "down")
      /\ lastOp'.target \in Elements)
       => /\ handlerState'.target = Undefined
          /\ handlerState'.committed = Undefined
          /\ timers' = {}
          /\ calls' = <<>>]_vars

\* C18 amended: a down-event on an element starts a new capture from every
\* handler state, idle, capturing or committed, with one new timeout as the
\* only one pending and no toggle call; a down-event whose target has no
\* owning document is treated as release when a target is pending.
C18_DownAlwaysCaptures ==
  [][/\ (IsEvent(lastOp', "down") /\ lastOp'.target \in Elements)
          => /\ handlerState'.action = "capture"
             /\ handlerState'.target = lastOp'.target
             /\ handlerState'.committed = JsFalse
             /\ handlerState'.timeout # NoTimeout
             /\ timers' = {handlerState'.timeout}
             /\ calls' = <<>>
     /\ (/\ IsEvent(lastOp', "down")
         /\ lastOp'.target \notin Elements
         /\ handlerState.target # Undefined)
          => /\ handlerState'.action = "release"
             /\ Idle(handlerState')
             /\ timers' = {}
             /\ calls' = <<>>]_vars

\* A capture in flight with its one timeout pending, in mode auto.
C18_Witness ==
  /\ IsDownOn(lastOp, "toggler")
  /\ handlerState.action = "capture"
  /\ handlerState.committed = JsFalse
  /\ handlerState.timeout # NoTimeout
  /\ timers = {handlerState.timeout}
  /\ state = "auto"

\* The feeds report light and not dark.
SystemPrefersLight ==
  /\ mediaQueries.prefersLightMode = JsTrue
  /\ mediaQueries.prefersDarkMode # JsTrue

\* C19: on an instance constructed with a store, when the long-press
\* timeout fires and toggle("auto") is made, the marker applied is the one
\* of the scheme the feeds report at that moment: the light marker when they
\* report light, the dark marker otherwise.
C19_AutoMatchesSystem ==
  [][(/\ localStorage.available
      /\ lastOp'.op = "timer"
      /\ calls' = <<Call("auto", Undefined)>>)
       => /\ state' = "auto"
          /\ classList' = IF SystemPrefersLight THEN {"light-mode"}
                                                ELSE {"dark-mode"}]_vars

\* C20: after a construction with a store, mode enabled has the dark marker
\* applied, mode disabled the light marker, and mode auto the dark marker
\* exactly when the last-observed preference is not light; exactly one
\* marker is applied.  (toggle(undefined, true) in mode auto inverts the
\* marker and leaves mode and preference as they were.)
C20_ModeMarkerConsistent ==
  (pc = "live" /\ localStorage.available)
    => /\ state \in Modes
       /\ state = "enabled" => classList = {"dark-mode"}
       /\ state = "disabled" => classList = {"light-mode"}
       /\ state = "auto"
            => classList = IF prefers # "light" THEN {"dark-mode"}
                                               ELSE {"light-mode"}

\* A capture in flight: target pending, committed false, timeout running.
Capturing(h) ==
  h.target # Undefined /\ h.committed = JsFalse /\ h.timeout # NoTimeout

\* The long press has fired for the held target and the mode is auto.
AutoCommitted(h) == h.target # Undefined /\ h.committed = JsTrue

\* C21: with a pending timeout callback eventually run, a handler that is
\* capturing eventually is idle (after an up-event, a release or a
\* preference event) or auto-committed with the mode auto (after the timeout
\* fired).
C21_EveryCaptureEnds ==
  Capturing(handlerState)
    ~> (Idle(handlerState) \/ (AutoCommitted(handlerState) /\ state = "auto"))
====
